---- MODULE Spec2Model ----
(***************************************************************************)
(* Model of the operation/operand mapping of                               *)
(* src/core/utility/plugins/vtable.h, exercised as in                       *)
(* src/core/simulator/extra/testing.cpp.                                    *)
(*                                                                         *)
(* One template instantiation is modelled: context Testing, root CEntity,  *)
(* return type int.  Distinct instantiations share no data (each has its   *)
(* own statics), so a second one only shows up here as tag queries that    *)
(* are not followed by a registration (action QueryTag).                   *)
(*                                                                         *)
(* std::vector is 0-indexed: element i of a vector is element i+1 of the   *)
(* sequence that models it (operators At, Put, Resize).                    *)
(***************************************************************************)
EXTENDS Integers, Sequences, FiniteSets, TLC

(* ------------------------------------------------------------------ *)
(* Bounds                                                             *)
(* ------------------------------------------------------------------ *)
\* number of REGISTER_OPERATION objects constructed in one run
MaxHooks == 3

(* ------------------------------------------------------------------ *)
(* The class hierarchy and the operations                             *)
(* ------------------------------------------------------------------ *)
BASE == "CEntity"
Types == {"CEntity", "CTestEntity1", "CTestEntity2", "CTestEntity3"}

\* operation classes; each has one ApplyTo(DERIVED&)
Operations == {"CTestOperationOnEntity",
               "CTestOperationOnTestEntity1",
               "CTestOperationOnTestEntity1b",
               "CTestOperationOnTestEntity2"}

\* the DERIVED argument of the REGISTER_OPERATION of an operation
OpDerived(op) ==
    CASE op = "CTestOperationOnEntity"       -> "CEntity"
      [] op = "CTestOperationOnTestEntity1"  -> "CTestEntity1"
      [] op = "CTestOperationOnTestEntity1b" -> "CTestEntity1"
      [] op = "CTestOperationOnTestEntity2"  -> "CTestEntity2"

\* the value ApplyTo returns
ApplyTo(op) ==
    CASE op = "CTestOperationOnEntity"       -> 0
      [] op = "CTestOperationOnTestEntity1"  -> 1
      [] op = "CTestOperationOnTestEntity1b" -> 3
      [] op = "CTestOperationOnTestEntity2"  -> 2

ReturnValues == {ApplyTo(op) : op \in Operations}

\* FUNCTION t = 0: the empty pointer to member function
NullFn == "0"
\* a pointer to Hook<OpDerived(op), op> is written as op
Functions == Operations \cup {NullFn}
\* COperation* NULL; a live pointer is the index of the instance in heap
NULL == 0

VARIABLES
    Count,                    \* STagCounter<BASE>::Count
    Tag,                      \* STagHolder<DERIVED, BASE>::Tag, per DERIVED
    m_vecVTable,              \* CVTable::m_vecVTable
    m_vecOperationInstances,  \* COperationInstanceHolder::m_vecOperationInstances
    heap,                     \* the objects made by new OPERATION(), in order
    deleted,                  \* per heap object: number of delete calls on it
    exited,                   \* the static holder and table have been destroyed
    slotBirth,                \* history: per table slot, the hook that created it
    result,                   \* what the last step returned to its caller
    phase,                    \* "load", or "dispatch" once threads call
    th,                       \* per thread: where its CallOperation is
    start                     \* history: the registries when dispatch began

vars == <<Count, Tag, m_vecVTable, m_vecOperationInstances,
          heap, deleted, exited, slotBirth, result, phase, th, start>>

\* the variables of the threads
tvars == <<phase, th, start>>

\* the threads that call CallOperation in the dispatch phase
Threads == {"T1", "T2"}

(* ------------------------------------------------------------------ *)
(* std::vector                                                        *)
(* ------------------------------------------------------------------ *)
At(vec, i) == vec[i + 1]

Put(vec, i, x) == [vec EXCEPT ![i + 1] = x]

\* vec.resize(n, fill)
Resize(vec, n, fill) ==
    IF n >= Len(vec)
    THEN vec \o [k \in 1..(n - Len(vec)) |-> fill]
    ELSE SubSeq(vec, 1, n)

(* ------------------------------------------------------------------ *)
(* Tag assigner                                                       *)
(* ------------------------------------------------------------------ *)
\* GetTag with  unTag = Count++  in place of  ++Count; unTag = Count
GetTagPostIncrement(T, c, ty) ==
    IF T[ty] = 0
    THEN [Tag |-> [T EXCEPT ![ty] = c], Count |-> c + 1, ret |-> c]
    ELSE [Tag |-> T, Count |-> c, ret |-> T[ty]]

\* GetTag without the test  unTag == 0
GetTagNoTest(T, c, ty) ==
    [Tag |-> [T EXCEPT ![ty] = c + 1], Count |-> c + 1, ret |-> c + 1]

\* GetTag<ty, BASE>() on tag holders T and counter c
GetTag(T, c, ty) ==
    IF T[ty] = 0
    THEN [Tag |-> [T EXCEPT ![ty] = c + 1], Count |-> c + 1, ret |-> c + 1]
    ELSE [Tag |-> T, Count |-> c, ret |-> T[ty]]

(* ------------------------------------------------------------------ *)
(* Dispatch table (CVTable)                                           *)
(* ------------------------------------------------------------------ *)
\* tDefaultFunction that is never taken from the root's slot
DefaultFunctionNone(vec, unBaseTag) == NullFn

\* tDefaultFunction of CVTable::Add: the slot of the root's tag, or 0
DefaultFunction(vec, unBaseTag) ==
    IF unBaseTag < Len(vec) THEN At(vec, unBaseTag) ELSE NullFn

\* CVTable::Add that stores t_function only when the table did not grow
VTableAddStoreInElse(vec, T, c, ty, fn) ==
    LET g == GetTag(T, c, ty)
        unIndex == g.ret
    IN  IF unIndex >= Len(vec)
        THEN LET gb == GetTag(g.Tag, g.Count, BASE)
             IN  [vec |-> Resize(vec, unIndex + 1,
                                 DefaultFunction(vec, gb.ret)),
                  Tag |-> gb.Tag, Count |-> gb.Count]
        ELSE [vec |-> Put(vec, unIndex, fn), Tag |-> g.Tag, Count |-> g.Count]

\* CVTable::Add that also hands a handler of the root to the empty slots
VTableAddRetroactive(vec, T, c, ty, fn) ==
    LET g == GetTag(T, c, ty)
        unIndex == g.ret
        gb == GetTag(g.Tag, g.Count, BASE)
        grown == IF unIndex >= Len(vec)
                 THEN Resize(vec, unIndex + 1, DefaultFunction(vec, gb.ret))
                 ELSE vec
        stored == Put(grown, unIndex, fn)
    IN  [vec |-> IF ty = BASE
                 THEN [k \in 1..Len(stored) |->
                          IF stored[k] = NullFn THEN fn ELSE stored[k]]
                 ELSE stored,
         Tag |-> gb.Tag, Count |-> gb.Count]

\* CVTable::Add that resizes to unIndex+1 without the test on the size
VTableAddResizeAlways(vec, T, c, ty, fn) ==
    LET g == GetTag(T, c, ty)
        unIndex == g.ret
        gb == GetTag(g.Tag, g.Count, BASE)
        grown == Resize(vec, unIndex + 1, DefaultFunction(vec, gb.ret))
    IN  [vec |-> Put(grown, unIndex, fn), Tag |-> gb.Tag, Count |-> gb.Count]

\* CVTable::Add<ty>(fn) on table vec, tag holders T and counter c
VTableAdd(vec, T, c, ty, fn) ==
    LET g == GetTag(T, c, ty)
        unIndex == g.ret
    IN  IF unIndex >= Len(vec)
        THEN LET gb == GetTag(g.Tag, g.Count, BASE)
                 grown == Resize(vec, unIndex + 1,
                                 DefaultFunction(vec, gb.ret))
             IN  [vec |-> Put(grown, unIndex, fn),
                  Tag |-> gb.Tag, Count |-> gb.Count]
        ELSE [vec |-> Put(vec, unIndex, fn), Tag |-> g.Tag, Count |-> g.Count]

\* CVTable::operator[] that creates the slot it is asked for
VTableGetCreate(vec, T, c, un_index) ==
    LET gb == GetTag(T, c, BASE)
        grown == IF un_index >= Len(vec)
                 THEN Resize(vec, un_index + 1, DefaultFunction(vec, gb.ret))
                 ELSE vec
    IN  {[fn |-> At(grown, un_index), index |-> un_index, oob |-> FALSE,
          vec |-> grown,
          Tag |-> IF un_index >= Len(vec) THEN gb.Tag ELSE T,
          Count |-> IF un_index >= Len(vec) THEN gb.Count ELSE c]}

\* CVTable::operator[](un_index): the set of things the read can yield.
\* The operator is const: vec is the table, as it was.  oob marks a read of
\* m_vecVTable past its end, whose value is arbitrary.
VTableGet(vec, T, c, un_index) ==
    IF un_index >= Len(vec)
    THEN LET gb == GetTag(T, c, BASE)
         IN  IF gb.ret < Len(vec)
             THEN {[fn |-> At(vec, gb.ret), index |-> gb.ret, oob |-> FALSE,
                    vec |-> vec, Tag |-> gb.Tag, Count |-> gb.Count]}
             ELSE {[fn |-> f, index |-> gb.ret, oob |-> TRUE,
                    vec |-> vec, Tag |-> gb.Tag, Count |-> gb.Count]
                      : f \in Functions}
    ELSE {[fn |-> At(vec, un_index), index |-> un_index, oob |-> FALSE,
           vec |-> vec, Tag |-> T, Count |-> c]}

(* ------------------------------------------------------------------ *)
(* Instance registry (COperationInstanceHolder)                       *)
(* ------------------------------------------------------------------ *)
\* COperationInstanceHolder::Add that leaves an occupied slot alone
HolderAddKeepFirst(vec, T, c, ty, pc_operation) ==
    LET g == GetTag(T, c, ty)
        unIndex == g.ret
        grown == IF unIndex >= Len(vec)
                 THEN Resize(vec, unIndex + 1, NULL) ELSE vec
    IN  [vec |-> IF At(grown, unIndex) = NULL
                 THEN Put(grown, unIndex, pc_operation) ELSE grown,
         Tag |-> g.Tag, Count |-> g.Count]

\* COperationInstanceHolder::Add that resizes without the test on the size
HolderAddResizeAlways(vec, T, c, ty, pc_operation) ==
    LET g == GetTag(T, c, ty)
        unIndex == g.ret
    IN  [vec |-> Put(Resize(vec, unIndex + 1, NULL), unIndex, pc_operation),
         Tag |-> g.Tag, Count |-> g.Count]

\* COperationInstanceHolder::Add<ty>(pc_operation)
HolderAdd(vec, T, c, ty, pc_operation) ==
    LET g == GetTag(T, c, ty)
        unIndex == g.ret
        grown == IF unIndex >= Len(vec)
                 THEN Resize(vec, unIndex + 1, NULL) ELSE vec
    IN  [vec |-> Put(grown, unIndex, pc_operation),
         Tag |-> g.Tag, Count |-> g.Count]

\* COperationInstanceHolder::operator[] that falls back to the root's slot
HolderGetFallback(vec, un_index) ==
    IF un_index >= Len(vec)
    THEN IF Tag[BASE] # 0 /\ Tag[BASE] < Len(vec)
         THEN At(vec, Tag[BASE]) ELSE NULL
    ELSE At(vec, un_index)

\* COperationInstanceHolder::operator[](un_index)
HolderGet(vec, un_index) ==
    IF un_index >= Len(vec) THEN NULL ELSE At(vec, un_index)

\* ~COperationInstanceHolder: how often the loop deletes heap object i
DeletesOf(vec, i) == Cardinality({k \in 1..Len(vec) : vec[k] = i})

(* ------------------------------------------------------------------ *)
(* COperation::Hook / Dispatch                                        *)
(* ------------------------------------------------------------------ *)
\* what undefined behaviour can end in: a crash, or any return value
Undefined ==
    {[outcome |-> "crash", value |-> 0, applied |-> "none", ub |-> TRUE]}
    \cup {[outcome |-> "returned", value |-> v, applied |-> "none",
           ub |-> TRUE] : v \in ReturnValues}

\* (pcOperation->*tFunction)(t_base) for an object of class ty; objs is heap
Invoke(objs, tFunction, pcOperation, ty) ==
    IF tFunction = NullFn
    THEN Undefined
    ELSE IF OpDerived(tFunction) \notin {ty, BASE}
    THEN Undefined  \* static_cast<DERIVED&> of an object that is no DERIVED
    ELSE IF pcOperation = NULL
    THEN \* Hook called with a null this: ApplyTo may run or the call may fault
         {[outcome |-> "returned", value |-> ApplyTo(tFunction),
           applied |-> tFunction, ub |-> TRUE],
          [outcome |-> "crash", value |-> 0, applied |-> "none", ub |-> TRUE]}
    ELSE IF objs[pcOperation] # tFunction
    THEN Undefined  \* static_cast<OPERATION_IMPL&> of another operation
    ELSE {[outcome |-> "returned", value |-> ApplyTo(tFunction),
           applied |-> tFunction, ub |-> FALSE]}

NoResult ==
    [kind |-> "none", type |-> "none", tag |-> 0, fn |-> NullFn,
     inst |-> NULL, outcome |-> "none", value |-> 0, applied |-> "none",
     ub |-> FALSE]

\* a thread that has not called yet
Idle ==
    [pc |-> "idle", obj |-> "none", stage |-> "own", c |-> 0,
     fn |-> NullFn, oob |-> FALSE,
     outcome |-> "none", value |-> 0, applied |-> "none"]

Init ==
    /\ Count = 0
    /\ Tag = [ty \in Types |-> 0]
    /\ m_vecVTable = <<>>
    /\ m_vecOperationInstances = <<>>
    /\ heap = <<>>
    /\ deleted = <<>>
    /\ exited = FALSE
    /\ slotBirth = <<>>
    /\ result = NoResult
    /\ phase = "load"
    /\ th = [t \in Threads |-> Idle]
    /\ start = [Tag |-> Tag, Count |-> Count, vt |-> <<>>, inst |-> <<>>]

\* the process runs: it has neither exited nor crashed
Running == ~exited /\ result.outcome # "crash"

\* the dynamic initializer  STagHolder<ty, BASE>::Tag = GetTag<ty, BASE>().
\* It runs once per class, at an unspecified point of the start-up; whether
\* it has run is not recorded, a second run would find the tag set and
\* change nothing.
TagHolderInit(ty) ==
    /\ Running
    /\ LET g == GetTag(Tag, Count, ty)
       IN  /\ Tag' = [g.Tag EXCEPT ![ty] = g.ret]
           /\ Count' = g.Count
    /\ result' = NoResult
    /\ UNCHANGED <<m_vecVTable, m_vecOperationInstances, heap, deleted,
                   exited, slotBirth, tvars>>

\* an object's virtual GetTag(), through EnableVTableFor::GetTagHelper
QueryTag(ty) ==
    /\ Running
    /\ LET g == GetTag(Tag, Count, ty)
       IN  /\ Tag' = g.Tag
           /\ Count' = g.Count
           /\ result' = [NoResult EXCEPT !.kind = "GetTag", !.type = ty,
                                         !.tag = g.ret]
    /\ UNCHANGED <<m_vecVTable, m_vecOperationInstances, heap,
                   deleted, exited, slotBirth, tvars>>

\* the body of the constructor a REGISTER_OPERATION defines, for operation
\* op, pc being the pointer new OPERATION() returns
Hook(vt, inst, T, c, op, pc) ==
    LET ty == OpDerived(op)
        v == VTableAdd(vt, T, c, ty, op)
        h == HolderAdd(inst, v.Tag, v.Count, ty, pc)
    IN  [vt |-> v.vec, inst |-> h.vec, Tag |-> h.Tag, Count |-> h.Count]

\* the constructor of the object a REGISTER_OPERATION defines
RegisterOperation(op) ==
    /\ Running
    /\ Len(heap) < MaxHooks
    /\ LET r == Hook(m_vecVTable, m_vecOperationInstances, Tag, Count, op,
                     Len(heap) + 1)
       IN  /\ m_vecVTable' = r.vt
           /\ slotBirth' = Resize(slotBirth, Len(r.vt), Len(heap) + 1)
           /\ heap' = Append(heap, op)
           /\ deleted' = Append(deleted, 0)
           /\ m_vecOperationInstances' = r.inst
           /\ Tag' = r.Tag
           /\ Count' = r.Count
    /\ result' = NoResult
    /\ UNCHANGED <<exited, tvars>>

\* the body of CallOperation for an object of class ty, on table vt,
\* registry inst, tag holders T, counter c and heap objs: the set of ways
\* it can end, each with the state it leaves and the record of the call
Dispatch(vt, inst, T, c, objs, ty) ==
    LET g == GetTag(T, c, ty)        \* t_base.GetTag()
    IN  UNION {
          LET pcOperation == HolderGet(inst, g.ret)
              ends == IF r.oob
                      THEN Undefined \cup Invoke(objs, r.fn, pcOperation, ty)
                      ELSE Invoke(objs, r.fn, pcOperation, ty)
          IN  {[vec |-> r.vec, Tag |-> r.Tag, Count |-> r.Count,
                call |-> [kind |-> "CallOperation", type |-> ty,
                          tag |-> g.ret, fn |-> r.fn, inst |-> pcOperation,
                          outcome |-> e.outcome, value |-> e.value,
                          applied |-> e.applied, ub |-> (e.ub \/ r.oob)]]
                 : e \in ends}
          : r \in VTableGet(vt, g.Tag, g.Count, g.ret)}

\* CallOperation<Testing, CEntity, int>(t_base), t_base an object of class ty
CallOperation(ty) ==
    /\ Running
    /\ \E d \in Dispatch(m_vecVTable, m_vecOperationInstances, Tag, Count,
                         heap, ty) :
          /\ m_vecVTable' = d.vec
          /\ Tag' = d.Tag
          /\ Count' = d.Count
          /\ result' = d.call
    /\ UNCHANGED <<m_vecOperationInstances, heap, deleted, exited,
                   slotBirth, tvars>>

\* process exit: ~COperationInstanceHolder runs (the table owns nothing)
Teardown ==
    /\ Running
    /\ exited' = TRUE
    /\ deleted' = [i \in 1..Len(deleted) |->
                      deleted[i] + DeletesOf(m_vecOperationInstances, i)]
    /\ m_vecOperationInstances' = <<>>
    /\ result' = NoResult
    /\ UNCHANGED <<Count, Tag, m_vecVTable, heap, slotBirth, tvars>>

Next ==
    \/ \E ty \in Types : TagHolderInit(ty)
    \/ \E ty \in Types : QueryTag(ty)
    \/ \E op \in Operations : RegisterOperation(op)
    \/ \E ty \in Types : CallOperation(ty)
    \/ Teardown

Spec == Init /\ [][Next]_vars
(* ------------------------------------------------------------------ *)
(* Dispatch phase: CallOperation from several threads.  Each thread    *)
(* runs the body of CallOperation one memory access at a time; nothing *)
(* in the code orders the accesses of different threads.              *)
(* ------------------------------------------------------------------ *)
\* number of hooks run before the threads start
MaxLoadHooks == 2

\* the test  unTag == 0  of GetTag
NeedsTagAlways(unTag) == TRUE

NeedsTag(unTag) == unTag = 0

\* the class whose GetTag a thread is in: the root inside operator[]
Target(l) == IF l.stage = "base" THEN BASE ELSE l.obj

\* a thread after  return m_vecVTable[un_index]  for index i: it holds the
\* callable (any value when i is past the end) and is about to call
\* t_base.GetTag() for the registry
AfterSlotRead(l, i) ==
    {[l EXCEPT !.fn = f, !.oob = (i >= Len(m_vecVTable)),
               !.stage = "own2", !.pc = "readTag"]
        : f \in IF i < Len(m_vecVTable)
                THEN {At(m_vecVTable, i)} ELSE Functions}

\* a thread after the registry read at tag v and the invocation
AfterInvoke(l, v) ==
    LET pcOperation == HolderGet(m_vecOperationInstances, v)
        ends == IF l.oob
                THEN Undefined \cup Invoke(heap, l.fn, pcOperation, l.obj)
                ELSE Invoke(heap, l.fn, pcOperation, l.obj)
    IN  {[Idle EXCEPT !.pc = "done", !.obj = l.obj, !.outcome = e.outcome,
                      !.value = e.value, !.applied = e.applied]
            : e \in ends}

\* where a thread can be after its GetTag has returned v.  No thread writes
\* the two vectors in the dispatch phase, so the reads of them that follow
\* the GetTag are taken in the same step.
Return(l, v) ==
    CASE l.stage = "own" ->
            IF v >= Len(m_vecVTable)
            THEN {[l EXCEPT !.stage = "base", !.pc = "readTag"]}
            ELSE AfterSlotRead(l, v)
      [] l.stage = "base" -> AfterSlotRead(l, v)
      [] l.stage = "own2" -> AfterInvoke(l, v)

\* no thread has crashed the process
NoCrash == \A t \in Threads : th[t].outcome # "crash"

\* a hook, run while the program loads
LoadHook(op) ==
    /\ phase = "load"
    /\ Len(heap) < MaxLoadHooks
    /\ RegisterOperation(op)

\* a tag holder's initializer, run while the program loads
LoadTagHolder(ty) ==
    /\ phase = "load"
    /\ Tag[ty] = 0
    /\ TagHolderInit(ty)

\* the hooks are done; each thread is handed an object and calls
\* CallOperation on it
StartDispatch ==
    /\ phase = "load"
    /\ phase' = "dispatch"
    /\ \E objs \in [Threads -> Types] :
          th' = [t \in Threads |->
                    [Idle EXCEPT !.pc = "readTag", !.obj = objs[t]]]
    /\ start' = [Tag |-> Tag, Count |-> Count, vt |-> m_vecVTable,
                 inst |-> m_vecOperationInstances]
    /\ UNCHANGED <<Count, Tag, m_vecVTable, m_vecOperationInstances, heap,
                   deleted, exited, slotBirth, result>>

\* size_t& unTag = STagHolder::Tag; if(unTag == 0) ... else return unTag
TReadTag(t) ==
    /\ phase = "dispatch" /\ NoCrash
    /\ th[t].pc = "readTag"
    /\ LET v == Tag[Target(th[t])]
       IN  IF NeedsTag(v)
           THEN th' = [th EXCEPT ![t] = [@ EXCEPT !.pc = "readCount"]]
           ELSE \E n \in Return(th[t], v) : th' = [th EXCEPT ![t] = n]
    /\ UNCHANGED <<Count, Tag, m_vecVTable, m_vecOperationInstances, heap,
                   deleted, exited, slotBirth, result, phase, start>>

\* ++STagCounter<BASE>::Count, the read
TReadCount(t) ==
    /\ phase = "dispatch" /\ NoCrash
    /\ th[t].pc = "readCount"
    /\ th' = [th EXCEPT ![t] = [@ EXCEPT !.c = Count, !.pc = "writeCount"]]
    /\ UNCHANGED <<Count, Tag, m_vecVTable, m_vecOperationInstances, heap,
                   deleted, exited, slotBirth, result, phase, start>>

\* ++STagCounter<BASE>::Count, the write
TWriteCount(t) ==
    /\ phase = "dispatch" /\ NoCrash
    /\ th[t].pc = "writeCount"
    /\ Count' = th[t].c + 1
    /\ th' = [th EXCEPT ![t] = [@ EXCEPT !.c = 0, !.pc = "assign"]]
    /\ UNCHANGED <<Tag, m_vecVTable, m_vecOperationInstances, heap,
                   deleted, exited, slotBirth, result, phase, start>>

\* unTag = STagCounter<BASE>::Count; return unTag
TAssign(t) ==
    /\ phase = "dispatch" /\ NoCrash
    /\ th[t].pc = "assign"
    /\ Tag' = [Tag EXCEPT ![Target(th[t])] = Count]
    /\ \E n \in Return(th[t], Count) : th' = [th EXCEPT ![t] = n]
    /\ UNCHANGED <<Count, m_vecVTable, m_vecOperationInstances, heap,
                   deleted, exited, slotBirth, result, phase, start>>

NextThreads ==
    \/ \E ty \in Types : LoadTagHolder(ty)
    \/ \E op \in Operations : LoadHook(op)
    \/ StartDispatch
    \/ \E t \in Threads : TReadTag(t)
    \/ \E t \in Threads : TReadCount(t)
    \/ \E t \in Threads : TWriteCount(t)
    \/ \E t \in Threads : TAssign(t)

SpecThreads == Init /\ [][NextThreads]_vars

(* ------------------------------------------------------------------ *)
(* History read off the heap: hook k constructed heap[k]              *)
(* ------------------------------------------------------------------ *)
Max(S) == CHOOSE x \in S : \A y \in S : y <= x

\* the hooks that registered an operation for class ty
RegisteredFor(ty) == {k \in 1..Len(heap) : OpDerived(heap[k]) = ty}

\* the operation of the latest hook for class ty
LastOperation(ty) == heap[Max(RegisteredFor(ty))]

(* ------------------------------------------------------------------ *)
(* Properties                                                         *)
(* ------------------------------------------------------------------ *)

TagStability ==
    [][\A ty \in Types :
          Tag[ty] # 0 =>
             /\ Tag'[ty] = Tag[ty]
             /\ (result'.kind = "GetTag" /\ result'.type = ty) =>
                   (result'.tag = Tag[ty] /\ Count' = Count)]_vars

\* a repeated query: the class queried got its tag before two other classes
\* did and before a hook ran
TagStabilityWitness ==
    /\ result.kind = "GetTag"
    /\ result.tag = 1
    /\ Count >= 3
    /\ heap # <<>>
\* the table slot of class ty exists
HasSlot(ty) == Tag[ty] # 0 /\ Tag[ty] < Len(m_vecVTable)

\* the hook that created the table slot of class ty
BirthOf(ty) == At(slotBirth, Tag[ty])

\* a handler for the root was registered before any slot for ty was created
\* (one exists now and is younger than a root hook, or none exists yet)
BaseRegisteredFirst(ty) ==
    IF HasSlot(ty)
    THEN \E k \in RegisteredFor(BASE) : k < BirthOf(ty)
    ELSE RegisteredFor(BASE) # {}

\* C4: when a handler for the root CEntity (returning 0) was registered
\* before any slot for a class was created and the class never got a
\* registration of its own, a CallOperation on an object of that class runs
\* the root's handler and returns 0, the slot being inside the table or
\* beyond its end.
FallbackInheritance ==
    (/\ result.kind = "CallOperation"
     /\ result.type # BASE
     /\ RegisteredFor(result.type) = {}
     /\ BaseRegisteredFirst(result.type)) =>
        /\ result.outcome = "returned"
        /\ result.applied = LastOperation(BASE)
        /\ result.value = 0

\* the slot of class ty existed, empty, before the first hook for the root
EmptySlotBeforeBase(ty) ==
    /\ ty # BASE
    /\ HasSlot(ty)
    /\ RegisteredFor(ty) = {}
    /\ RegisteredFor(BASE) # {}
    /\ \A k \in RegisteredFor(BASE) : k > BirthOf(ty)

\* the step is a hook that registers a handler for the root
BaseHookStep ==
    /\ Len(heap') = Len(heap) + 1
    /\ OpDerived(heap'[Len(heap')]) = BASE

\* a call on such a class has read the empty slot and run no operation
ReadsEmptySlot ==
    (result.kind = "CallOperation" /\ EmptySlotBeforeBase(result.type))
       => (result.fn = NullFn /\ result.applied = "none")

UnregisteredReported ==
    (/\ result.kind = "CallOperation"
     /\ RegisteredFor(result.type) = {}
     /\ RegisteredFor(BASE) = {}) =>
        (result.outcome = "UnregisteredOperand" /\ ~result.ub)

\* class ty was registered twice, with different operations
ReRegistered(ty) ==
    \E j, k \in RegisteredFor(ty) : j < k /\ heap[j] # heap[k]

SlotPairing ==
    ~exited =>
       \A t \in 0..Count :
          (t < Len(m_vecVTable) /\ At(m_vecVTable, t) # NullFn)
          <=> (t < Len(m_vecOperationInstances)
               /\ At(m_vecOperationInstances, t) # NULL)

\* C9: after the registry is torn down every operation instance a hook
\* made has been deleted exactly once.
InstanceOwnership ==
    exited => \A i \in 1..Len(heap) : deleted[i] = 1

\* the step is a CallOperation
CallStep == result'.kind = "CallOperation"

\* C10 as stated: a CallOperation changes neither the table, nor the
\* registry, nor the tag counter, nor any tag holder.
CallNoSideEffect ==
    [][CallStep => UNCHANGED <<m_vecVTable, m_vecOperationInstances,
                               Count, Tag>>]_vars

\* the tag holders a CallOperation on class ty has to read
TagsReadBy(ty) ==
    IF Tag[ty] # 0 /\ Tag[ty] < Len(m_vecVTable)
    THEN {ty}
    ELSE IF Tag[ty] = 0 /\ Count + 1 < Len(m_vecVTable)
    THEN {ty}
    ELSE {ty, BASE}

\* C10: a CallOperation leaves the table, the registry and every assigned
\* tag holder unchanged; it assigns a tag to each unassigned holder it reads
\* (the object's class, and the root when the tag lies beyond the table),
\* counting the counter up once for each, and changes no other holder.
CallFrame ==
    [][CallStep =>
          LET fresh == {x \in TagsReadBy(result'.type) : Tag[x] = 0}
          IN  /\ UNCHANGED <<m_vecVTable, m_vecOperationInstances, heap,
                             deleted, exited>>
              /\ \A x \in Types \ fresh : Tag'[x] = Tag[x]
              /\ \A x \in fresh : Tag'[x] \in (Count + 1)..Count'
              /\ Count' = Count + Cardinality(fresh)]_vars

\* a call on an object of a class without a tag has given the class one,
\* after hooks have filled the table
CallFrameWitness ==
    /\ result.kind = "CallOperation"
    /\ result.tag = Count
    /\ Len(m_vecVTable) = Count
    /\ Len(heap) >= 2
\* the index CVTable::operator[] used to read m_vecVTable in the last call
EffectiveIndex ==
    IF result.tag < Len(m_vecVTable) THEN result.tag ELSE Tag[BASE]

\* C12: a CallOperation that resolves a non-empty callable from a slot of
\* the table (the class's own, a growth-time copy, or the root's on an
\* out-of-range tag) invokes it on a non-empty instance, the one made by
\* the hook that registered that callable.
SameRegistration ==
    (/\ result.kind = "CallOperation"
     /\ EffectiveIndex < Len(m_vecVTable)
     /\ result.fn # NullFn) =>
        /\ result.inst # NULL
        /\ heap[result.inst] = result.fn

\* C13: CVTable::operator[] returns the slot stored at the tag when the tag
\* is inside the table, and the slot stored at the root's own tag when the
\* tag is at or beyond the table's length.
TableLookup ==
    result.kind = "CallOperation" =>
        IF result.tag < Len(m_vecVTable)
        THEN result.fn = At(m_vecVTable, result.tag)
        ELSE /\ Tag[BASE] < Len(m_vecVTable)
             /\ result.fn = At(m_vecVTable, Tag[BASE])

\* C14: every index CVTable::operator[] uses to read m_vecVTable is smaller
\* than the table's length.
LookupInBounds ==
    result.kind = "CallOperation" => EffectiveIndex < Len(m_vecVTable)

\* the step is a hook; HookType is the class it registers, HookTag its tag
HookStep == Len(heap') = Len(heap) + 1
HookType == OpDerived(heap'[Len(heap')])
HookTag == Tag'[HookType]

\* the callable stored at the root's tag, or empty when it has no slot
Fallback ==
    IF Tag[BASE] # 0 /\ Tag[BASE] < Len(m_vecVTable)
    THEN At(m_vecVTable, Tag[BASE]) ELSE NullFn

\* C15: a CVTable::Add for a class whose tag is at or beyond the table's
\* length resizes the table to tag+1, fills every new slot but the added
\* one with the callable that was at the root's tag before the call (empty
\* when the root had no slot), keeps the old slots and stores the new
\* callable at the tag.
GrowthFillsFallback ==
    [][(HookStep /\ HookTag >= Len(m_vecVTable)) =>
          /\ Len(m_vecVTable') = HookTag + 1
          /\ \A k \in 0..(HookTag - 1) :
                At(m_vecVTable', k) =
                   IF k < Len(m_vecVTable) THEN At(m_vecVTable, k)
                   ELSE Fallback
          /\ At(m_vecVTable', HookTag) = heap'[Len(heap')]]_vars

\* a slot other than the root's holds the root's handler: growth copied it
GrowthFillsFallbackWitness ==
    /\ RegisteredFor(BASE) # {}
    /\ \E k \in 0..(Len(m_vecVTable) - 1) :
          k # Tag[BASE] /\ At(m_vecVTable, k) = LastOperation(BASE)

\* a call with a tag beyond the registry's end has got no instance
NoInstanceBeyondEnd ==
    (/\ result.kind = "CallOperation"
     /\ result.tag >= Len(m_vecOperationInstances)) => result.inst = NULL

\* C16: COperationInstanceHolder::Add creates only NULL slots and changes
\* no slot but the added one, and COperationInstanceHolder::operator[]
\* returns NULL for a tag at or beyond the array's length.
RegistryNoFallback ==
    [][/\ HookStep =>
            /\ Len(m_vecOperationInstances') =
                  IF HookTag >= Len(m_vecOperationInstances)
                  THEN HookTag + 1 ELSE Len(m_vecOperationInstances)
            /\ \A k \in 0..(Len(m_vecOperationInstances') - 1) :
                  At(m_vecOperationInstances', k) =
                     IF k = HookTag THEN Len(heap')
                     ELSE IF k < Len(m_vecOperationInstances)
                     THEN At(m_vecOperationInstances, k)
                     ELSE NULL
       /\ NoInstanceBeyondEnd']_vars

\* the root has an instance in the registry and a call with a tag beyond
\* the registry's end got NULL
RegistryNoFallbackWitness ==
    /\ result.kind = "CallOperation"
    /\ result.tag >= Len(m_vecOperationInstances)
    /\ RegisteredFor(BASE) # {}
    /\ At(m_vecOperationInstances, Tag[BASE]) # NULL
    /\ result.inst = NULL

\* C17: in every step the table's length does not decrease and a non-empty
\* slot does not become empty.
TableMonotone ==
    [][/\ Len(m_vecVTable') >= Len(m_vecVTable)
       /\ \A k \in 0..(Len(m_vecVTable) - 1) :
             At(m_vecVTable, k) # NullFn => At(m_vecVTable', k) # NullFn]_vars

\* the latest hook registered a class for the second time, in a slot that
\* is not the table's last
TableMonotoneWitness ==
    /\ Len(heap) >= 2
    /\ result = NoResult
    /\ ~exited
    /\ LET ty == OpDerived(heap[Len(heap)])
       IN  /\ Cardinality(RegisteredFor(ty)) >= 2
           /\ Tag[ty] + 1 < Len(m_vecVTable)
\* the registries after the hooks of ops have run in the order of ops, and
\* nothing else, from the state at program start
RECURSIVE RunHooks(_)
RunHooks(ops) ==
    IF ops = <<>>
    THEN [vt |-> <<>>, inst |-> <<>>, Tag |-> [ty \in Types |-> 0], Count |-> 0]
    ELSE LET st == RunHooks(SubSeq(ops, 1, Len(ops) - 1))
         IN  Hook(st.vt, st.inst, st.Tag, st.Count, ops[Len(ops)], Len(ops))

\* the hooks that ran, in every order
Orders ==
    {[i \in 1..Len(heap) |-> heap[p[i]]] : p \in Permutations(1..Len(heap))}

\* the hooks that ran register pairwise distinct classes
DistinctClasses ==
    \A j, k \in 1..Len(heap) :
       j # k => OpDerived(heap[j]) # OpDerived(heap[k])

AloneEnds(ty) ==
    {<<d.call.outcome, d.call.value, d.call.applied>> :
        d \in Dispatch(start.vt, start.inst, start.Tag, start.Count, heap, ty)}

\* the threads wrote nothing, every finished call ended as it ends alone,
\* and the tags are still unique
CallsReadOnly ==
    /\ Tag = start.Tag
    /\ Count = start.Count
    /\ m_vecVTable = start.vt
    /\ m_vecOperationInstances = start.inst
    /\ \A t \in Threads :
          th[t].pc = "done" =>
             <<th[t].outcome, th[t].value, th[t].applied>>
                \in AloneEnds(th[t].obj)
    /\ \A a, b \in Types :
          (a # b /\ Tag[a] # 0 /\ Tag[b] # 0) => Tag[a] # Tag[b]

StartReads(ty) ==
    IF start.Tag[ty] # 0 /\ start.Tag[ty] < Len(start.vt)
    THEN {ty} ELSE {ty, BASE}

\* every tag holder the threads' calls read was assigned when they started
StartTagged ==
    \A t \in Threads : \A x \in StartReads(th[t].obj) : start.Tag[x] # 0

====
